---- MODULE Spec2Model ----
(***************************************************************************)
(* Model of src/interner.rs: the InternerBuilder (string -> symbol map     *)
(* with a saturating NonZeroU32 counter), build() (arena packing, view     *)
(* sequence, reverse map), the Resolver lookups, and the serde encoding.   *)
(*                                                                         *)
(* Strings are byte sequences.  A view (&'static str) is a raw pointer     *)
(* into a heap allocation plus a length; reading it goes through the heap. *)
(* HashMap iteration order is an arbitrary permutation of the keys.        *)
(***************************************************************************)
EXTENDS Integers, Sequences, FiniteSets, TLC

\* Width, in bits, at which the model keeps the NonZeroU32 counter (32 in the
\* program); the counter arithmetic is otherwise that of the source.
SymBits == 2
\* Longest sequence an arbitrary decoder input may have.
MaxInput == 3
\* Number of heap addresses available to the allocator.
MaxAddr == 4

NonZeroU32_MAX == 2 ^ SymBits - 1

\* The strings callers pass: "", "a", "b", "ab" as byte sequences.
Strings == { <<>>, <<1>>, <<2>>, <<1, 2>> }

\* What a read through a pointer to freed or out-of-range memory yields.
Dangling == << -1 >>

Addr == 1 .. MaxAddr
Locs == {"slot1", "slot2"}
None == 0

VARIABLES
    phase,      \* "builder" | "resolver" | "dropped": life of the builder and its Resolver
    count,      \* InternerBuilder.count
    map_strs,   \* InternerBuilder.map_strs
    ret,        \* argument and result of the last get_or_intern call
    calls,      \* history: every <<string, symbol>> get_or_intern has returned
    resolver,   \* the Resolver build() produced: strs_map, strs, arena
    loc,        \* where the Resolver value currently lives
    built,      \* history: what each index of strs read as when build() returned
    heap,       \* heap allocations: address -> [live, bytes]
    wire,       \* the encoded sequence handed to the deserializer
    decoded     \* the deserializer's result

vars == << phase, count, map_strs, ret, calls, resolver, loc, built, heap, wire, decoded >>

----------------------------------------------------------------------------
\* Helpers

\* Every order in which a HashMap may iterate over the key set S.
Perms(S) ==
    { f \in [1 .. Cardinality(S) -> S] : \A i, j \in DOMAIN f : f[i] = f[j] => i = j }

SeqsUpTo(S, n) == UNION { [1 .. k -> S] : k \in 0 .. n }

FreeCell == [live |-> FALSE, bytes |-> <<>>]

\* The allocator hands out a free address; which one is immaterial.
Alloc(h) == CHOOSE a \in Addr : ~h[a].live /\ \A b \in Addr : ~h[b].live => a <= b

NoResolver == [strs_map |-> {}, strs |-> <<>>, arena |-> [base |-> 0, len |-> 0]]

----------------------------------------------------------------------------
\* InternerBuilder

InitCount == 1

SaturatingAdd(c, n) == IF c + n > NonZeroU32_MAX THEN NonZeroU32_MAX ELSE c + n

\* HashMap insert of a vacant key.
MapInsert(m, key, val) ==
    [x \in DOMAIN m \cup {key} |-> IF x = key THEN val ELSE m[x]]

\* get_or_intern without the lookup of an existing entry's symbol.
GetOrInternNoLookup(val) ==
    /\ phase = "builder"
    /\ wire.src # "input"
    /\ map_strs' = MapInsert(map_strs, val, count)
    /\ count' = SaturatingAdd(count, 1)
    /\ ret' = [arg |-> val, sym |-> count, overflow |-> FALSE]
    /\ calls' = calls \cup { <<val, count>> }
    /\ UNCHANGED << phase, resolver, loc, built, heap, wire, decoded >>

GetOrIntern(val) ==
    /\ phase = "builder"
    /\ wire.src # "input"
    /\ IF val \in DOMAIN map_strs
       THEN /\ ret' = [arg |-> val, sym |-> map_strs[val], overflow |-> FALSE]
            /\ calls' = calls \cup { <<val, map_strs[val]>> }
            /\ UNCHANGED << count, map_strs >>
       ELSE /\ map_strs' = MapInsert(map_strs, val, count)
            /\ count' = SaturatingAdd(count, 1)
            /\ ret' = [arg |-> val, sym |-> count, overflow |-> FALSE]
            /\ calls' = calls \cup { <<val, count>> }
    /\ UNCHANGED << phase, resolver, loc, built, heap, wire, decoded >>

----------------------------------------------------------------------------
\* build()

\* The first loop: one (symbol, start, length) triple per entry, in the
\* map's iteration order, the bytes appended to the arena Vec.
RECURSIVE PackArena(_, _, _, _)
PackArena(m, order, indices, arena) ==
    IF order = <<>> THEN [indices |-> indices, arena |-> arena]
    ELSE LET key == Head(order)
         IN  PackArena(m, Tail(order),
                       Append(indices, << m[key], Len(arena), Len(key) >>),
                       arena \o key)

\* Insert e after every element whose key is <= e's: a stable insertion.
RECURSIVE InsertByKey(_, _)
InsertByKey(sorted, e) ==
    IF sorted = <<>> THEN << e >>
    ELSE IF Head(sorted)[1] <= e[1]
         THEN << Head(sorted) >> \o InsertByKey(Tail(sorted), e)
         ELSE << e >> \o sorted

\* indices.sort_by_key(|(i, _, _)| *i): a stable sort on the symbol.
RECURSIVE SortByKey(_)
SortByKey(indices) ==
    IF indices = <<>> THEN <<>>
    ELSE InsertByKey(SortByKey(SubSeq(indices, 1, Len(indices) - 1)),
                     indices[Len(indices)])

\* The bytes a view reads.  A zero-length view reads nothing and is valid
\* at any address.
Content(h, v) ==
    IF v.len = 0 THEN <<>>
    ELSE IF v.base \in Addr /\ h[v.base].live /\ v.off + v.len <= Len(h[v.base].bytes)
         THEN SubSeq(h[v.base].bytes, v.off + 1, v.off + v.len)
         ELSE Dangling

\* The "" literal pushed first.
SentinelView == [base |-> 0, off |-> 0, len |-> 0]

InitStrsNoSentinel == <<>>

InitStrs == << SentinelView >>

\* The pointer the views are derived from, given the address of the Vec's
\* buffer and that of the boxed slice made from it.
ArenaPtrOfVec(vec_addr, box_addr) == vec_addr

ArenaPtr(vec_addr, box_addr) == box_addr

\* HashMap<&str, _>::insert: keys compare by the bytes they view; an equal
\* key keeps the old key and takes the new value.
StrsMapInsert(h, m, view, sym) ==
    IF \E p \in m : Content(h, p[1]) = Content(h, view)
    THEN { IF Content(h, p[1]) = Content(h, view) THEN << p[1], sym >> ELSE p : p \in m }
    ELSE m \cup { << view, sym >> }

RECURSIVE BuildViews(_, _, _, _, _)
BuildViews(h, ptr, indices, strs_map, strs) ==
    IF indices = <<>> THEN [strs_map |-> strs_map, strs |-> strs]
    ELSE LET e == Head(indices)
             current_str == [base |-> ptr, off |-> e[2], len |-> e[3]]
         IN  BuildViews(h, ptr, Tail(indices),
                        StrsMapInsert(h, strs_map, current_str, e[1]),
                        Append(strs, current_str))

\* build() of a builder whose map is m, iterated in `order`; `moved` is
\* whether turning the arena Vec into a boxed slice reallocated it.
\* Yields the Resolver and the heap after the call.
Build(m, order, moved, h) ==
    LET packed == PackArena(m, order, <<>>, <<>>)
        total == Len(packed.arena)
        cell == [live |-> TRUE, bytes |-> packed.arena]
        vec_addr == IF total = 0 THEN 0 ELSE Alloc(h)
        h1 == IF total = 0 THEN h ELSE [h EXCEPT ![vec_addr] = cell]
        box_addr == IF moved THEN Alloc(h1) ELSE vec_addr
        h2 == IF moved THEN [h1 EXCEPT ![box_addr] = cell, ![vec_addr] = FreeCell] ELSE h1
        arena_ptr == ArenaPtr(vec_addr, box_addr)
        v == BuildViews(h2, arena_ptr, SortByKey(packed.indices), {}, InitStrs)
    IN  [res |-> [strs_map |-> v.strs_map, strs |-> v.strs,
                  arena |-> [base |-> box_addr, len |-> total]],
         heap |-> h2]

\* Dropping a Resolver frees its arena allocation.
FreeArena(h, res) ==
    IF res.arena.base \in Addr THEN [h EXCEPT ![res.arena.base] = FreeCell] ELSE h

BuildStep ==
    /\ phase = "builder"
    /\ \E order \in Perms(DOMAIN map_strs), moved \in BOOLEAN :
          /\ moved => map_strs # <<>> /\ \E s \in DOMAIN map_strs : s # <<>>
          /\ LET b == Build(map_strs, order, moved, heap)
             IN  /\ resolver' = b.res
                 /\ heap' = b.heap
                 /\ built' = [k \in DOMAIN b.res.strs |-> Content(b.heap, b.res.strs[k])]
    /\ phase' = "resolver"
    /\ UNCHANGED << count, map_strs, ret, calls, loc, wire, decoded >>

----------------------------------------------------------------------------
\* Resolver

\* get: the symbol stored under the key whose bytes equal val, if any.
Get(h, res, val) ==
    IF \E p \in res.strs_map : Content(h, p[1]) = val
    THEN (CHOOSE p \in res.strs_map : Content(h, p[1]) = val)[2]
    ELSE None

Length(res) == Len(res.strs)

\* resolve_unchecked: every value the call may yield.  Within the sequence
\* it is the view's bytes; outside it the read is unchecked.
ResolveUnchecked(h, res, sym) ==
    IF sym < Len(res.strs) THEN { Content(h, res.strs[sym + 1]) }
    ELSE Strings \cup {Dangling}

\* The Resolver value is moved to another place; its fields are copied
\* bitwise, heap allocations stay where they are.
Move ==
    /\ phase = "resolver"
    /\ \E l \in Locs \ {loc} : loc' = l
    /\ UNCHANGED << phase, count, map_strs, ret, calls, resolver, built, heap, wire, decoded >>

Drop ==
    /\ phase = "resolver"
    /\ phase' = "dropped"
    /\ heap' = FreeArena(heap, resolver)
    /\ resolver' = NoResolver
    /\ UNCHANGED << count, map_strs, ret, calls, loc, built, wire, decoded >>

----------------------------------------------------------------------------
\* serde

\* serialize: the views' bytes, in sequence order.
Encode(h, res) == [k \in DOMAIN res.strs |-> Content(h, res.strs[k])]

Serialize ==
    /\ phase = "resolver"
    /\ wire.src = "none"
    /\ wire' = [src |-> "encode", values |-> Encode(heap, resolver)]
    /\ UNCHANGED << phase, count, map_strs, ret, calls, resolver, loc, built, heap, decoded >>

\* An arbitrary sequence of strings arrives for decoding.
Receive ==
    /\ phase = "builder"
    /\ calls = {}
    /\ wire.src = "none"
    /\ \E values \in SeqsUpTo(Strings, MaxInput) :
          wire' = [src |-> "input", values |-> values]
    /\ UNCHANGED << phase, count, map_strs, ret, calls, resolver, loc, built, heap, decoded >>

\* The deserializer's loop with an occupied entry merged instead of refused.
RECURSIVE DecodeLoopMerging(_, _, _)
DecodeLoopMerging(values, c, m) ==
    IF values = <<>> THEN [err |-> FALSE, count |-> c, map_strs |-> m]
    ELSE IF Head(values) \in DOMAIN m
         THEN DecodeLoopMerging(Tail(values), c, m)
         ELSE DecodeLoopMerging(Tail(values), SaturatingAdd(c, 1),
                                MapInsert(m, Head(values), c))

\* The deserializer's loop over the values after the first.
RECURSIVE DecodeLoop(_, _, _)
DecodeLoop(values, c, m) ==
    IF values = <<>> THEN [err |-> FALSE, count |-> c, map_strs |-> m]
    ELSE IF Head(values) \in DOMAIN m
         THEN [err |-> TRUE, count |-> c, map_strs |-> m]
         ELSE DecodeLoop(Tail(values), SaturatingAdd(c, 1),
                         MapInsert(m, Head(values), c))

\* values.into_iter().skip(1)
Skip1(values) == IF values = <<>> THEN <<>> ELSE Tail(values)

NoDecoded == [kind |-> "none", res |-> NoResolver]

Deserialize ==
    /\ wire.src # "none"
    /\ decoded.kind = "none"
    /\ LET d == DecodeLoop(Skip1(wire.values), InitCount, <<>>)
       IN  IF d.err
           THEN /\ decoded' = [kind |-> "err", res |-> NoResolver]
                /\ heap' = heap
           ELSE \E order \in Perms(DOMAIN d.map_strs), moved \in BOOLEAN :
                   /\ moved => \E s \in DOMAIN d.map_strs : s # <<>>
                   /\ LET b == Build(d.map_strs, order, moved, heap)
                      IN  /\ decoded' = [kind |-> "ok", res |-> b.res]
                          /\ heap' = b.heap
    /\ UNCHANGED << phase, count, map_strs, ret, calls, resolver, loc, built, wire >>

----------------------------------------------------------------------------

Init ==
    /\ phase = "builder"
    /\ count = InitCount
    /\ map_strs = <<>>
    /\ ret = [arg |-> <<>>, sym |-> None, overflow |-> FALSE]
    /\ calls = {}
    /\ resolver = NoResolver
    /\ loc = "slot1"
    /\ built = <<>>
    /\ heap = [a \in Addr |-> FreeCell]
    /\ wire = [src |-> "none", values |-> <<>>]
    /\ decoded = NoDecoded

Intern == \E val \in Strings : GetOrIntern(val)

Next ==
    \/ Intern
    \/ BuildStep
    \/ Move
    \/ Drop
    \/ Serialize
    \/ Receive
    \/ Deserialize

Spec == Init /\ [][Next]_vars

----------------------------------------------------------------------------
\* Properties

\* The symbols a caller can hold for the Resolver: indices of its sequence
\* that fit the identifier.
ValidSymbols(res) ==
    { k \in 0 .. NonZeroU32_MAX : k < Length(res) }

InternedStrings == { p[1] : p \in calls }
IssuedSymbols == { p[2] : p \in calls }

\* C1: after build(), resolving the symbol get_or_intern returned for any
\* interned string yields exactly that string.
C1_RoundTrip ==
    phase = "resolver" =>
        \A p \in calls : ResolveUnchecked(heap, resolver, p[2]) = { p[1] }

\* C2: two get_or_intern calls with different strings return different
\* symbols.
C2_Injective ==
    \A p, q \in calls : p[1] # q[1] => p[2] # q[2]

\* C3: get_or_intern of an already interned string returns the symbol first
\* assigned to it and leaves the counter and the map unchanged.
C3_Idempotent ==
    [][\A s \in Strings :
          (GetOrIntern(s) /\ s \in DOMAIN map_strs) =>
              /\ \E p \in calls : p[1] = s
              /\ \A p \in calls : p[1] = s => ret'.sym = p[2]
              /\ ret'.arg = s
              /\ count' = count
              /\ map_strs' = map_strs]_vars

\* A string was interned again after a later string had been interned.
C3_Witness ==
    /\ phase = "builder"
    /\ ret.sym # None
    /\ ret.sym + 1 < count
    /\ << ret.arg, ret.sym >> \in calls

\* C4: get(s) returns k exactly when 1 <= k < len() and the view at index k
\* reads s.
C4_ReverseInverse ==
    phase = "resolver" =>
        \A s \in Strings, k \in 1 .. Length(resolver) + 1 :
            (Get(heap, resolver, s) = k)
                <=> (k < Length(resolver) /\ Content(heap, resolver.strs[k + 1]) = s)

\* C5 as stated: a symbol resolves to the empty string if and only if it is
\* 0, and get_or_intern never returns 0.
C5_SentinelIff ==
    /\ \A p \in calls : p[2] # 0
    /\ phase = "resolver" =>
          \A k \in ValidSymbols(resolver) :
              (ResolveUnchecked(heap, resolver, k) = { <<>> }) <=> (k = 0)

\* C5 amended: symbol 0 resolves to the empty string, get_or_intern never
\* returns 0, and a nonzero symbol resolves to the empty string only if it
\* is the symbol get_or_intern returned for the empty string.
C5_SentinelAmended ==
    /\ \A p \in calls : p[2] # 0
    /\ phase = "resolver" =>
          /\ ResolveUnchecked(heap, resolver, 0) = { <<>> }
          /\ \A k \in ValidSymbols(resolver) \ {0} :
                ResolveUnchecked(heap, resolver, k) = { <<>> }
                    => << <<>>, k >> \in calls

\* A Resolver built after the empty string and another string were interned.
C5_Witness ==
    /\ phase = "resolver"
    /\ Length(resolver) >= 3
    /\ <<>> \in InternedStrings
    /\ \E k \in ValidSymbols(resolver) \ {0} :
          ResolveUnchecked(heap, resolver, k) = { <<>> }

\* C6: with N distinct strings interned the issued symbols are exactly
\* 1..N, and the Resolver built from the builder has len() = N + 1.
C6_DenseSymbols ==
    LET N == Cardinality(InternedStrings)
    IN  /\ IssuedSymbols = 1 .. N
        /\ phase = "resolver" => Length(resolver) = N + 1

\* A view reads live bytes inside the given arena.
ViewInArena(h, arena, v) ==
    \/ v.len = 0
    \/ /\ v.base = arena.base
       /\ v.base \in Addr
       /\ h[v.base].live
       /\ v.off + v.len <= arena.len

\* C7: while the Resolver exists, moved or not, its arena is a live
\* allocation at the address it was boxed at, and every view of the
\* sequence and every key of the reverse map reads live arena bytes with
\* the content it had when build() returned.
C7_ViewsValid ==
    phase = "resolver" =>
        /\ resolver.arena.len > 0 =>
              /\ resolver.arena.base \in Addr
              /\ heap[resolver.arena.base].live
              /\ Len(heap[resolver.arena.base].bytes) = resolver.arena.len
        /\ DOMAIN built = DOMAIN resolver.strs
        /\ \A k \in DOMAIN resolver.strs :
              /\ ViewInArena(heap, resolver.arena, resolver.strs[k])
              /\ Content(heap, resolver.strs[k]) = built[k]
              /\ built[k] # Dangling
        /\ \A p \in resolver.strs_map :
              /\ ViewInArena(heap, resolver.arena, p[1])
              /\ \E k \in DOMAIN built : Content(heap, p[1]) = built[k]

\* A Resolver with two or more strings, whose arena was reallocated when
\* boxed, after it has been moved, with another Resolver decoded since.
C7_Witness ==
    /\ phase = "resolver"
    /\ loc = "slot2"
    /\ Length(resolver) >= 3
    /\ resolver.arena.base = 2
    /\ decoded.kind = "ok"

\* C8: a new string arriving while the counter is at its maximum yields an
\* explicit overflow, not a symbol; likewise in the deserializer.
C8_OverflowSurfaced ==
    [][/\ \A s \in Strings :
            (GetOrIntern(s) /\ s \notin DOMAIN map_strs /\ count = NonZeroU32_MAX)
                => (ret'.overflow /\ ret'.sym = None)
       /\ (Deserialize /\ Len(wire.values) > NonZeroU32_MAX)
                => decoded'.kind \notin {"ok"}]_vars

\* C9: decoding a sequence with a repeated value among positions 1..N fails
\* with the duplicate-value error and yields no Resolver.
C9_DecodeRejectsDuplicates ==
    (/\ decoded.kind # "none"
     /\ \E i, j \in 2 .. Len(wire.values) : i < j /\ wire.values[i] = wire.values[j])
        => (decoded.kind = "err" /\ decoded.res = NoResolver)

\* An arbitrary input was refused.
C9_Witness ==
    /\ wire.src = "input"
    /\ decoded.kind = "err"
    /\ Len(wire.values) = 3

\* C10: decoding what encoding a Resolver emitted succeeds, with the same
\* length, the same string at every index and the same get for every string.
C10_EncodeDecodeRoundTrip ==
    (phase = "resolver" /\ wire.src = "encode" /\ decoded.kind # "none") =>
        /\ decoded.kind = "ok"
        /\ Length(decoded.res) = Length(resolver)
        /\ \A k \in DOMAIN resolver.strs :
              Content(heap, decoded.res.strs[k]) = Content(heap, resolver.strs[k])
        /\ \A s \in Strings : Get(heap, decoded.res, s) = Get(heap, resolver, s)

====
